---- MODULE Spec2Model ----
(***************************************************************************)
(* Model of rs-dev-tools' JSON utility (src/modules/json_utils/mod.rs):    *)
(* the JsonUtils document state, its parse/format pipeline, the flat tree  *)
(* and its navigation, the edit session (temp file + notify channel) and   *)
(* the render/poll loop of run_json_utils.                                 *)
(*                                                                         *)
(* Text is a sequence of one-character strings, so that parsing and        *)
(* pretty-printing are computed character by character.                    *)
(***************************************************************************)
EXTENDS Integers, Sequences, FiniteSets, TLC

\* ------------------------------------------------------------------ bounds

\* Capacity of the notification channel considered (mpsc::channel is unbounded).
MaxQueue == 2
\* Largest scroll_offset considered (usize in the code).
MaxScroll == 1

\* ------------------------------------------------------------- characters

Digits == <<"0", "1", "2", "3", "4", "5", "6", "7", "8", "9">>

IsDigit(c) == c \in {Digits[k] : k \in 1..10}

DigitVal(c) == (CHOOSE k \in 1..10 : Digits[k] = c) - 1

IsWs(c) == c \in {" ", "\n", "\t", "\r"}

\* Characters of the sample documents in ascending byte order (String's Ord).
ByteOrder == <<"\n", " ", "\"", ",", "0", "1", "2", "3", "4", "5", "6", "7", "8", "9", ":",
               "[", "]", "a", "b", "c", "d", "e", "f", "h", "i", "l", "n", "o", "r", "s", "t",
               "u", "x", "y", "{", "}">>

CharCode(c) == CHOOSE k \in 1..Len(ByteOrder) : ByteOrder[k] = c

RECURSIVE StrLess(_, _)
StrLess(a, b) ==
    IF b = <<>> THEN FALSE
    ELSE IF a = <<>> THEN TRUE
    ELSE IF Head(a) = Head(b) THEN StrLess(Tail(a), Tail(b))
    ELSE CharCode(Head(a)) < CharCode(Head(b))

RECURSIVE NatToText(_)
NatToText(n) ==
    IF n < 10 THEN <<Digits[n + 1]>>
    ELSE NatToText(n \div 10) \o <<Digits[(n % 10) + 1]>>

\* ------------------------------------------------------------ Value model

Null == [t |-> "null"]

Bool(b) == [t |-> "bool", b |-> b]

Num(n) == [t |-> "num", n |-> n]

Str(s) == [t |-> "str", s |-> s]

Arr(items) == [t |-> "arr", items |-> items]

\* entries: sequence of <<key, value>> in the map's iteration order
Obj(entries) == [t |-> "obj", entries |-> entries]

is_object(v) == v.t = "obj"

is_array(v) == v.t = "arr"

\* serde_json::Map::insert on the default (BTreeMap) map: a key already
\* present keeps its position and takes the new value, a new key is placed
\* in ascending key order.
RECURSIVE MapInsert(_, _, _)
MapInsert(entries, k, v) ==
    IF entries = <<>> THEN << <<k, v>> >>
    ELSE IF Head(entries)[1] = k THEN << <<k, v>> >> \o Tail(entries)
    ELSE IF StrLess(k, Head(entries)[1]) THEN << <<k, v>> >> \o entries
    ELSE <<Head(entries)>> \o MapInsert(Tail(entries), k, v)

\* ----------------------------------------------------- serde_json::from_str

At(s, i) == IF i >= 1 /\ i <= Len(s) THEN s[i] ELSE "EOF"

RECURSIVE SkipWs(_, _)
SkipWs(s, i) == IF IsWs(At(s, i)) THEN SkipWs(s, i + 1) ELSE i

Fail(i) == [ok |-> FALSE, v |-> Null, i |-> i]

Done(v, i) == [ok |-> TRUE, v |-> v, i |-> i]

\* s[i..] starts with the characters of word
RECURSIVE StartsWith(_, _, _)
StartsWith(s, i, word) ==
    IF word = <<>> THEN TRUE
    ELSE At(s, i) = Head(word) /\ StartsWith(s, i + 1, Tail(word))

ParseIdent(s, i, word, v) ==
    IF StartsWith(s, i, word) THEN Done(v, i + Len(word)) ELSE Fail(i)

\* index of the closing quote of the string whose first character is at j,
\* 0 when the text ends or a raw control character comes first
RECURSIVE StringEnd(_, _)
StringEnd(s, j) ==
    IF j > Len(s) THEN 0
    ELSE IF s[j] = "\"" THEN j
    ELSE IF s[j] \in {"\n", "\t", "\r", "\\"} THEN 0
    ELSE StringEnd(s, j + 1)

\* s[i] is the opening quote
ParseString(s, i) ==
    LET j == StringEnd(s, i + 1)
    IN  IF j = 0 THEN Fail(i) ELSE Done(Str(SubSeq(s, i + 1, j - 1)), j + 1)

RECURSIVE DigitsEnd(_, _)
DigitsEnd(s, j) == IF IsDigit(At(s, j)) THEN DigitsEnd(s, j + 1) ELSE j

RECURSIVE TextToNat(_)
TextToNat(ds) ==
    IF ds = <<>> THEN 0
    ELSE TextToNat(SubSeq(ds, 1, Len(ds) - 1)) * 10 + DigitVal(ds[Len(ds)])

\* s[i] is a digit; a leading zero followed by a digit is an invalid number.
\* Fractions and exponents are not written in the sample documents.
ParseNumber(s, i) ==
    LET j == DigitsEnd(s, i)
    IN  IF s[i] = "0" /\ j > i + 1 THEN Fail(i + 1)
        ELSE IF At(s, j) \in {".", "e", "E"} THEN Fail(j)
        ELSE Done(Num(TextToNat(SubSeq(s, i, j - 1))), j)

RECURSIVE ParseValue(_, _), ParseElements(_, _, _), ParseMembers(_, _, _)

\* a value starting at or after i (leading whitespace skipped)
ParseValue(s, i) ==
    LET p == SkipWs(s, i)
        c == At(s, p)
    IN  CASE c = "n" -> ParseIdent(s, p, <<"n", "u", "l", "l">>, Null)
          [] c = "t" -> ParseIdent(s, p, <<"t", "r", "u", "e">>, Bool(TRUE))
          [] c = "f" -> ParseIdent(s, p, <<"f", "a", "l", "s", "e">>, Bool(FALSE))
          [] IsDigit(c) -> ParseNumber(s, p)
          [] c = "\"" -> ParseString(s, p)
          [] c = "[" ->
                IF At(s, SkipWs(s, p + 1)) = "]"
                THEN Done(Arr(<<>>), SkipWs(s, p + 1) + 1)
                ELSE ParseElements(s, p + 1, <<>>)
          [] c = "{" ->
                IF At(s, SkipWs(s, p + 1)) = "}"
                THEN Done(Obj(<<>>), SkipWs(s, p + 1) + 1)
                ELSE ParseMembers(s, p + 1, <<>>)
          [] OTHER -> Fail(p)

\* the elements of an array from i on, acc the elements read so far
ParseElements(s, i, acc) ==
    LET r == ParseValue(s, i)
        p == SkipWs(s, r.i)
    IN  IF ~r.ok THEN r
        ELSE IF At(s, p) = "," THEN ParseElements(s, p + 1, Append(acc, r.v))
        ELSE IF At(s, p) = "]" THEN Done(Arr(Append(acc, r.v)), p + 1)
        ELSE Fail(p)

\* the members of an object from i on, acc the map built so far
ParseMembers(s, i, acc) ==
    LET p == SkipWs(s, i)
        k == IF At(s, p) = "\"" THEN ParseString(s, p) ELSE Fail(p)
        q == SkipWs(s, k.i)
        r == IF k.ok /\ At(s, q) = ":" THEN ParseValue(s, q + 1) ELSE Fail(q)
        e == SkipWs(s, r.i)
    IN  IF ~r.ok THEN r
        ELSE IF At(s, e) = "," THEN ParseMembers(s, e + 1, MapInsert(acc, k.v.s, r.v))
        ELSE IF At(s, e) = "}" THEN Done(Obj(MapInsert(acc, k.v.s, r.v)), e + 1)
        ELSE Fail(e)

\* serde_json::from_str::<Value>: one value, then only whitespace
from_str(s) ==
    LET r == ParseValue(s, 1)
    IN  IF r.ok /\ SkipWs(s, r.i) = Len(s) + 1 THEN r ELSE [r EXCEPT !.ok = FALSE]

\* ------------------------------------------- serde_json::to_string_pretty

RECURSIVE Indent(_)
Indent(n) == IF n = 0 THEN <<>> ELSE <<" ", " ">> \o Indent(n - 1)

Quote(s) == <<"\"">> \o s \o <<"\"">>

RECURSIVE PrettyAt(_, _), PrettyItems(_, _), PrettyEntries(_, _)

\* v written at nesting level d (PrettyFormatter, two-space indent)
PrettyAt(v, d) ==
    CASE v.t = "null" -> <<"n", "u", "l", "l">>
      [] v.t = "bool" -> IF v.b THEN <<"t", "r", "u", "e">> ELSE <<"f", "a", "l", "s", "e">>
      [] v.t = "num" -> NatToText(v.n)
      [] v.t = "str" -> Quote(v.s)
      [] v.t = "arr" ->
            IF v.items = <<>> THEN <<"[", "]">>
            ELSE <<"[">> \o PrettyItems(v.items, d + 1) \o <<"\n">> \o Indent(d) \o <<"]">>
      [] v.t = "obj" ->
            IF v.entries = <<>> THEN <<"{", "}">>
            ELSE <<"{">> \o PrettyEntries(v.entries, d + 1) \o <<"\n">> \o Indent(d) \o <<"}">>

PrettyItems(items, d) ==
    IF items = <<>> THEN <<>>
    ELSE <<"\n">> \o Indent(d) \o PrettyAt(Head(items), d)
         \o (IF Len(items) > 1 THEN <<",">> ELSE <<>>)
         \o PrettyItems(Tail(items), d)

PrettyEntries(entries, d) ==
    IF entries = <<>> THEN <<>>
    ELSE <<"\n">> \o Indent(d) \o Quote(Head(entries)[1]) \o <<":", " ">>
         \o PrettyAt(Head(entries)[2], d)
         \o (IF Len(entries) > 1 THEN <<",">> ELSE <<>>)
         \o PrettyEntries(Tail(entries), d)

to_string_pretty(v) == PrettyAt(v, 0)

\* ------------------------------------------------------- sample documents

EmptyText == <<>>

\* hi
TextHi == <<"h", "i">>

\* bye
TextBye == <<"b", "y", "e">>

\* {"a":}
TextBadObj == <<"{", "\"", "a", "\"", ":", "}">>

\* {"x":[1,2,{"y":true}]}
TextScenario == <<"{", "\"", "x", "\"", ":", "[", "1", ",", "2", ",", "{", "\"", "y", "\"",
                  ":", "t", "r", "u", "e", "}", "]", "}">>

\* {"a":{"b":{"c":1}}}
TextDeep == <<"{", "\"", "a", "\"", ":", "{", "\"", "b", "\"", ":", "{", "\"", "c", "\"",
              ":", "1", "}", "}", "}">>

\* [[],{}]
TextEmpties == <<"[", "[", "]", ",", "{", "}", "]">>

\* 10 with a leading blank
TextScalar == <<" ", "1", "0">>

\* what the clipboard, the editor or another process can put in the document
\* [[[1],2],[3]]
TextArrays == <<"[", "[", "[", "1", "]", ",", "2", "]", ",", "[", "3", "]", "]">>

\* {"a":{"b":[{"c":1}]},"d":2}
TextMixed == <<"{", "\"", "a", "\"", ":", "{", "\"", "b", "\"", ":", "[", "{", "\"", "c", "\"",
               ":", "1", "}", "]", "}", ",", "\"", "d", "\"", ":", "2", "}">>

\* {"b":1,"a":[2],"b":{"c":3}}: keys out of order, one of them twice
TextDupKeys == <<"{", "\"", "b", "\"", ":", "1", ",", "\"", "a", "\"", ":", "[", "2", "]", ",",
                 "\"", "b", "\"", ":", "{", "\"", "c", "\"", ":", "3", "}", "}">>

\* {"root":{"a":[1]}}: a field named like the path given to the root
TextRootKey == <<"{", "\"", "r", "o", "o", "t", "\"", ":", "{", "\"", "a", "\"", ":", "[", "1", "]", "}", "}">>

Texts == {EmptyText, TextHi, TextBye, TextScenario}

\* the documents navigated in the tree view
TreeTexts == {TextBadObj, TextScenario, TextDeep, TextEmpties, TextScalar, TextArrays,
              TextMixed, TextDupKeys}

\* ------------------------------------------------------------ Tree Builder

TextRoot == <<"r", "o", "o", "t">>

\* format!("[{}]", i)
IndexKey(i) == <<"[">> \o NatToText(i) \o <<"]">>

\* a node with `depth <= 2` as the expand policy
JsonTreeNode_le2(key, value, depth, path) ==
    [key |-> key, value |-> value, expanded |-> depth <= 2, depth |-> depth, path |-> path]

\* a node with `depth < 1` as the expand policy
JsonTreeNode_lt1(key, value, depth, path) ==
    [key |-> key, value |-> value, expanded |-> depth < 1, depth |-> depth, path |-> path]

JsonTreeNode(key, value, depth, path) ==
    [key |-> key, value |-> value, expanded |-> depth < 2, depth |-> depth, path |-> path]

RECURSIVE build_tree_recursive(_, _, _, _), build_entries(_, _, _), build_items(_, _, _, _)

build_tree_recursive(value, key, depth, path) ==
    <<JsonTreeNode(key, value, depth, path)>>
    \o (IF is_object(value) THEN build_entries(value.entries, depth, path)
        ELSE IF is_array(value) THEN build_items(value.items, 0, depth, path)
        ELSE <<>>)

\* for (k, v) in obj
build_entries(entries, depth, path) ==
    IF entries = <<>> THEN <<>>
    ELSE LET k == Head(entries)[1]
             new_path == IF path = TextRoot THEN k ELSE path \o <<".">> \o k
         IN  build_tree_recursive(Head(entries)[2], k, depth + 1, new_path)
             \o build_entries(Tail(entries), depth, path)

\* array elements pushed at the depth of the array itself
build_items_flat(items, i, depth, path) ==
    IF items = <<>> THEN <<>>
    ELSE LET new_path == IF path = TextRoot THEN IndexKey(i) ELSE path \o IndexKey(i)
         IN  build_tree_recursive(Head(items), IndexKey(i), depth, new_path)
             \o build_items(Tail(items), i + 1, depth, path)

\* for (i, v) in arr.iter().enumerate(), items the elements from index i on
build_items(items, i, depth, path) ==
    IF items = <<>> THEN <<>>
    ELSE LET new_path == IF path = TextRoot THEN IndexKey(i) ELSE path \o IndexKey(i)
         IN  build_tree_recursive(Head(items), IndexKey(i), depth + 1, new_path)
             \o build_items(Tail(items), i + 1, depth, path)

\* the json_tree after build_tree(value); selected_node is reset by the caller
build_tree(value) == build_tree_recursive(value, <<>>, 0, TextRoot)

\* ------------------------------------------------------ Visibility Resolver

NoSkip == -1

IsContainer(node) == is_object(node.value) \/ is_array(node.value)

\* the scan of get_visible_nodes from flat position i (1-based) on, with the
\* current skip_depth; the result lists the flat indices (0-based) of the
\* nodes pushed, which is what the references into json_tree identify
\* get_visible_nodes with `node.depth >= depth` as the skip test
RECURSIVE visible_scan_ge(_, _, _)
visible_scan_ge(tree, i, skip_depth) ==
    IF i > Len(tree) THEN <<>>
    ELSE LET node == tree[i]
         IN  IF skip_depth # NoSkip /\ node.depth >= skip_depth
             THEN visible_scan_ge(tree, i + 1, skip_depth)
             ELSE <<i - 1>>
                  \o visible_scan_ge(tree, i + 1,
                                     IF IsContainer(node) /\ ~node.expanded
                                     THEN node.depth ELSE NoSkip)

RECURSIVE visible_scan(_, _, _)
visible_scan(tree, i, skip_depth) ==
    IF i > Len(tree) THEN <<>>
    ELSE LET node == tree[i]
         IN  IF skip_depth # NoSkip /\ node.depth > skip_depth
             THEN visible_scan(tree, i + 1, skip_depth)
             ELSE <<i - 1>>
                  \o visible_scan(tree, i + 1,
                                  IF IsContainer(node) /\ ~node.expanded
                                  THEN node.depth ELSE NoSkip)

get_visible_nodes(tree) == visible_scan(tree, 1, NoSkip)

\* visible_nodes.iter().position(..).unwrap_or(0): 0-based position of the
\* selected flat index in the visible sequence, 0 when it is not there
current_visible_index(visible, selected) ==
    IF \E p \in 1..Len(visible) : visible[p] = selected
    THEN (CHOOSE p \in 1..Len(visible) : visible[p] = selected) - 1
    ELSE 0

\* selected_node after move_selection_up
move_selection_up(tree, selected) ==
    LET visible == get_visible_nodes(tree)
        cur == current_visible_index(visible, selected)
    IN  IF visible # <<>> /\ cur > 0 THEN visible[cur] ELSE selected

\* move_selection_down stepping to the next flat index instead of the next visible node
move_selection_down_flat(tree, selected) ==
    IF selected + 1 < Len(tree) THEN selected + 1 ELSE selected

\* selected_node after move_selection_down
move_selection_down(tree, selected) ==
    LET visible == get_visible_nodes(tree)
        cur == current_visible_index(visible, selected)
    IN  IF visible # <<>> /\ cur < Len(visible) - 1 THEN visible[cur + 2] ELSE selected

\* toggle_node without the test for an object or an array
toggle_node_any(tree, selected) ==
    IF selected < Len(tree)
    THEN [tree EXCEPT ![selected + 1].expanded = ~tree[selected + 1].expanded]
    ELSE tree

\* json_tree after toggle_node
toggle_node(tree, selected) ==
    IF selected < Len(tree) /\ IsContainer(tree[selected + 1])
    THEN [tree EXCEPT ![selected + 1].expanded = ~tree[selected + 1].expanded]
    ELSE tree

\* -------------------------------------------------------- main menu (main.rs)

MaxInput == 3

\* stands for the character e-acute, two bytes in UTF-8
EAcute == "e-acute"

\* the characters KeyCode::Char(c) delivers
MenuChars == {"u", "F", "x", EAcute}

len_utf8(c) == IF c = EAcute THEN 2 ELSE 1

\* String::len: the length in bytes
RECURSIVE byte_len(_)
byte_len(s) == IF s = <<>> THEN 0 ELSE len_utf8(Head(s)) + byte_len(Tail(s))

is_char_boundary(s, idx) == \E k \in 0..Len(s) : byte_len(SubSeq(s, 1, k)) = idx

\* String::insert(idx, ch) for idx on a character boundary; it panics otherwise
insert(s, idx, ch) ==
    LET k == CHOOSE k \in 0..Len(s) : byte_len(SubSeq(s, 1, k)) = idx
    IN  SubSeq(s, 1, k) \o <<ch>> \o SubSeq(s, k + 1, Len(s))

\* chars().take(n) and chars().skip(n)
take(s, n) == SubSeq(s, 1, IF n < Len(s) THEN n ELSE Len(s))

skip(s, n) == SubSeq(s, n + 1, Len(s))

LowerChar(c) ==
    CASE c = "J" -> "j" [] c = "S" -> "s" [] c = "O" -> "o" [] c = "N" -> "n"
      [] c = "U" -> "u" [] c = "B" -> "b" [] c = "T" -> "t" [] c = "F" -> "f"
      [] OTHER -> c

to_lowercase(s) == [i \in 1..Len(s) |-> LowerChar(s[i])]

\* str::contains
contains(hay, needle) ==
    \E i \in 0..Len(hay) :
        i + Len(needle) <= Len(hay) /\ SubSeq(hay, i + 1, i + Len(needle)) = needle

all_programs ==
    << <<"J", "S", "O", "N", " ", "U", "t", "i", "l", "s">>,
       <<"B", "a", "s", "e", "6", "4", " ", "T", "o", "o", "l", "s">>,
       <<"S", "t", "r", "i", "n", "g", " ", "U", "t", "i", "l", "s">>,
       <<"F", "i", "l", "e", " ", "T", "o", "o", "l", "s">> >>

Matches(name, input) ==
    input = <<>> \/ contains(to_lowercase(name), to_lowercase(input))

filtered_programs(input) == SelectSeq(all_programs, LAMBDA name : Matches(name, input))

filtered_count(input) == Len(filtered_programs(input))

MainMenu_new ==
    [input |-> <<>>, cursor_position |-> 0, input_mode |-> "Normal", selected |-> 0]

\* new_cursor_pos.clamp(0, self.input.len())
clamp_cursor(input, new_cursor_pos) ==
    IF new_cursor_pos > byte_len(input) THEN byte_len(input) ELSE new_cursor_pos

move_cursor_left(m) ==
    [m EXCEPT !.cursor_position =
        clamp_cursor(m.input, IF m.cursor_position = 0 THEN 0 ELSE m.cursor_position - 1)]

move_cursor_right(m) ==
    [m EXCEPT !.cursor_position = clamp_cursor(m.input, m.cursor_position + 1)]

\* for a cursor_position that String::insert accepts
enter_char(m, new_char) ==
    LET inserted == [m EXCEPT !.input = insert(m.input, m.cursor_position, new_char)]
    IN  [move_cursor_right(inserted) EXCEPT !.selected = 0]

delete_char(m) ==
    IF m.cursor_position # 0
    THEN LET current_index == m.cursor_position
             deleted == [m EXCEPT !.input = take(m.input, current_index - 1)
                                            \o skip(m.input, current_index)]
         IN  [move_cursor_left(deleted) EXCEPT !.selected = 0]
    ELSE m

next_item(m, items_len) ==
    IF items_len > 0 THEN [m EXCEPT !.selected = (m.selected + 1) % items_len] ELSE m

previous_item(m, items_len) ==
    IF items_len > 0
    THEN [m EXCEPT !.selected = IF m.selected = 0 THEN items_len - 1 ELSE m.selected - 1]
    ELSE m

\* ------------------------------------------------------------------ state

VARIABLES
    raw_input,              \* JsonUtils fields
    formatted_json,
    error_message,
    is_valid,
    view_mode,
    json_tree,
    selected_node,
    parsed_value,
    temp_file,
    file_watcher_rx,
    needs_terminal_reinit,
    scroll_offset,
    files,                  \* the temp directory: content of each temp file path
    watcher,                \* the path a live notify watcher is feeding the channel from
    terminal,               \* "tui" after ratatui::init, "restored" after ratatui::restore
    pc,                     \* position of run_json_utils in its loop
    menu,                   \* MainMenu fields
    menu_pc                 \* run_main_menu: "menu" in its loop, "json" inside
                            \* run_json_utils, "quit", "error", "panic"

doc == <<raw_input, formatted_json, error_message, is_valid, json_tree, selected_node,
         parsed_value, scroll_offset>>

session == <<temp_file, file_watcher_rx, files, watcher>>

vars == <<raw_input, formatted_json, error_message, is_valid, view_mode, json_tree,
          selected_node, parsed_value, temp_file, file_watcher_rx, needs_terminal_reinit,
          scroll_offset, files, watcher, terminal, pc, menu, menu_pc>>

\* run_main_menu is suspended while run_json_utils runs
main_menu == <<menu, menu_pc>>

\* Option::None of parsed_value
NoValue == [t |-> "absent"]

\* Option::None of temp_file and of the watcher
NoPath == 0

\* the paths NamedTempFile::new can hand out (a new one never equals a live one)
FileIds == {1, 2}

\* content of a path that does not exist
NoFile == <<"ENOENT">>

\* Option::None of file_watcher_rx
NoReceiver == [some |-> FALSE, pending |-> 0]

\* Some(rx) with n notifications waiting in the channel
Receiver(n) == [some |-> TRUE, pending |-> n]

\* what the temp file of the session holds, NoFile without a session
SessionFile == IF temp_file = NoPath THEN NoFile ELSE files[temp_file]

Init ==
    /\ raw_input = EmptyText
    /\ formatted_json = EmptyText
    /\ error_message = ""
    /\ is_valid = FALSE
    /\ view_mode = "Raw"
    /\ json_tree = <<>>
    /\ selected_node = 0
    /\ parsed_value = NoValue
    /\ temp_file = NoPath
    /\ file_watcher_rx = NoReceiver
    /\ needs_terminal_reinit = FALSE
    /\ scroll_offset = 0
    /\ files = [f \in FileIds |-> NoFile]
    /\ watcher = NoPath
    /\ terminal = "tui"
    /\ pc = "check"
    /\ menu = MainMenu_new     \* Enter on "JSON Utils" in the menu as it starts
    /\ menu_pc = "json"

\* --------------------------------------------------- Parse/Format Pipeline

\* parse_json whose build_tree does not reset selected_node
parse_json_keep_selection(raw, pretty_ok) ==
    LET r == from_str(raw)
    IN  IF r.ok
        THEN /\ formatted_json' = to_string_pretty(r.v)
             /\ is_valid' = TRUE
             /\ error_message' = ""
             /\ parsed_value' = r.v
             /\ json_tree' = build_tree(r.v)
             /\ scroll_offset' = 0
             /\ UNCHANGED selected_node
        ELSE /\ error_message' = "Invalid JSON"
             /\ is_valid' = FALSE
             /\ formatted_json' = EmptyText
             /\ parsed_value' = NoValue
             /\ json_tree' = <<>>
             /\ UNCHANGED <<selected_node, scroll_offset>>

\* parse_json whose syntax-error arm leaves the tree in place
parse_json_keep_tree(raw, pretty_ok) ==
    LET r == from_str(raw)
    IN  IF r.ok
        THEN /\ formatted_json' = to_string_pretty(r.v)
             /\ is_valid' = TRUE
             /\ error_message' = ""
             /\ parsed_value' = r.v
             /\ json_tree' = build_tree(r.v)
             /\ selected_node' = 0
             /\ scroll_offset' = 0
        ELSE /\ error_message' = "Invalid JSON"
             /\ is_valid' = FALSE
             /\ formatted_json' = EmptyText
             /\ parsed_value' = NoValue
             /\ UNCHANGED <<json_tree, selected_node, scroll_offset>>

\* parse_json whose success arm keeps the pretty text of the previous document
parse_json_stale_formatted(raw, pretty_ok) ==
    LET r == from_str(raw)
    IN  IF r.ok
        THEN /\ UNCHANGED formatted_json
             /\ is_valid' = TRUE
             /\ error_message' = ""
             /\ parsed_value' = r.v
             /\ json_tree' = build_tree(r.v)
             /\ selected_node' = 0
             /\ scroll_offset' = 0
        ELSE /\ error_message' = "Invalid JSON"
             /\ is_valid' = FALSE
             /\ formatted_json' = EmptyText
             /\ parsed_value' = NoValue
             /\ json_tree' = <<>>
             /\ UNCHANGED <<selected_node, scroll_offset>>

\* parse_json after raw_input has been set to raw; pretty_ok is the outcome
\* of to_string_pretty
parse_json_with(raw, pretty_ok) ==
    LET r == from_str(raw)
    IN  IF r.ok /\ pretty_ok
        THEN /\ formatted_json' = to_string_pretty(r.v)
             /\ is_valid' = TRUE
             /\ error_message' = ""
             /\ parsed_value' = r.v
             /\ json_tree' = build_tree(r.v)
             /\ selected_node' = 0
             /\ scroll_offset' = 0
        ELSE IF r.ok
        THEN /\ error_message' = "Format error"
             /\ is_valid' = FALSE
             /\ parsed_value' = NoValue
             /\ UNCHANGED <<formatted_json, json_tree, selected_node, scroll_offset>>
        ELSE /\ error_message' = "Invalid JSON"
             /\ is_valid' = FALSE
             /\ formatted_json' = EmptyText
             /\ parsed_value' = NoValue
             /\ json_tree' = <<>>
             /\ UNCHANGED <<selected_node, scroll_offset>>

\* serializing a Value (string keys, finite numbers) cannot fail
parse_json(raw) == parse_json_with(raw, TRUE)

\* ------------------------------------------------------ results of a handler

\* handle_event returned Ok(true): the loop goes round
Continue == pc' = "check"

\* an Err carried by `?` out of handle_event and out of run_json_utils
Propagate == pc' = "error"

\* --------------------------------------------------------------- handlers

\* clip: "unavailable" (Clipboard::new fails), "error" (get_text fails) or the text
paste_from_clipboard(clip) ==
    /\ UNCHANGED <<view_mode, session, needs_terminal_reinit, terminal>>
    /\ IF clip = <<"unavailable">>
       THEN Propagate /\ UNCHANGED doc
       ELSE IF clip = <<"error">>
       THEN /\ error_message' = "Failed to get clipboard"
            /\ is_valid' = FALSE
            /\ formatted_json' = EmptyText
            /\ UNCHANGED <<raw_input, json_tree, selected_node, parsed_value, scroll_offset>>
            /\ Continue
       ELSE /\ raw_input' = clip
            /\ parse_json(clip)
            /\ Continue

\* clip: "unavailable", "error" (set_text fails) or "ok"
copy_to_clipboard(clip) ==
    /\ UNCHANGED <<raw_input, formatted_json, is_valid, json_tree, selected_node,
                   parsed_value, scroll_offset>>
    /\ UNCHANGED <<view_mode, session, needs_terminal_reinit, terminal>>
    /\ IF is_valid /\ formatted_json # EmptyText
       THEN CASE clip = "unavailable" -> Propagate /\ UNCHANGED error_message
              [] clip = "ok" ->
                    error_message' = "Copied formatted JSON to clipboard" /\ Continue
              [] OTHER -> error_message' = "Failed to copy to clipboard" /\ Continue
       ELSE Continue /\ UNCHANGED error_message

\* copy_minified_to_clipboard that tests only for a stored Value
copy_minified_any_value(clip) ==
    /\ UNCHANGED <<raw_input, formatted_json, is_valid, json_tree, selected_node,
                   parsed_value, scroll_offset>>
    /\ UNCHANGED <<view_mode, session, needs_terminal_reinit, terminal>>
    /\ IF parsed_value # NoValue
       THEN CASE clip = "unavailable" -> Propagate /\ UNCHANGED error_message
              [] clip = "ok" ->
                    error_message' = "Copied minified JSON to clipboard" /\ Continue
              [] OTHER -> error_message' = "Failed to copy to clipboard" /\ Continue
       ELSE Continue /\ UNCHANGED error_message

copy_minified_to_clipboard(clip) ==
    /\ UNCHANGED <<raw_input, formatted_json, is_valid, json_tree, selected_node,
                   parsed_value, scroll_offset>>
    /\ UNCHANGED <<view_mode, session, needs_terminal_reinit, terminal>>
    /\ IF is_valid /\ parsed_value # NoValue
       THEN CASE clip = "unavailable" -> Propagate /\ UNCHANGED error_message
              [] clip = "ok" ->
                    error_message' = "Copied minified JSON to clipboard" /\ Continue
              [] OTHER -> error_message' = "Failed to copy to clipboard" /\ Continue
       ELSE Continue /\ UNCHANGED error_message

\* the path of a newly created NamedTempFile
NewPath == CHOOSE f \in FileIds : f # temp_file

\* files once self.temp_file = Some(new) holds content: the NamedTempFile held
\* before is dropped, which removes its file
Replaced(new, content) ==
    [f \in FileIds |-> IF f = new THEN content ELSE NoFile]

\* create_temp_file_for_editing without the early return on an empty raw_input
create_temp_file_for_editing_unguarded(io_ok) ==
    /\ UNCHANGED <<view_mode, needs_terminal_reinit, terminal>>
    /\ UNCHANGED <<raw_input, formatted_json, is_valid, json_tree, selected_node,
                   parsed_value, scroll_offset>>
    /\ IF ~io_ok
       THEN /\ UNCHANGED <<error_message, session>>
            /\ Propagate
       ELSE /\ error_message' = "Edit this file"
            /\ temp_file' = NewPath
            /\ file_watcher_rx' = Receiver(0)
            /\ files' = Replaced(NewPath, raw_input)
            /\ watcher' = NoPath
            /\ Continue

\* create_temp_file_for_editing that stores the temp file but not the receiver
create_temp_file_for_editing_keep_rx(io_ok) ==
    /\ UNCHANGED <<view_mode, needs_terminal_reinit, terminal>>
    /\ UNCHANGED <<raw_input, formatted_json, is_valid, json_tree, selected_node,
                   parsed_value, scroll_offset>>
    /\ IF raw_input = EmptyText
       THEN /\ error_message' = "No JSON content to edit"
            /\ UNCHANGED session
            /\ Continue
       ELSE IF ~io_ok
       THEN /\ UNCHANGED <<error_message, session>>
            /\ Propagate
       ELSE /\ error_message' = "Edit this file"
            /\ temp_file' = NewPath
            /\ files' = Replaced(NewPath, raw_input)
            /\ UNCHANGED <<file_watcher_rx, watcher>>
            /\ Continue

\* io_ok: NamedTempFile::new, fs::write and the watcher setup all succeed
create_temp_file_for_editing(io_ok) ==
    /\ UNCHANGED <<view_mode, needs_terminal_reinit, terminal>>
    /\ UNCHANGED <<raw_input, formatted_json, is_valid, json_tree, selected_node,
                   parsed_value, scroll_offset>>
    /\ IF raw_input = EmptyText
       THEN /\ error_message' = "No JSON content to edit"
            /\ UNCHANGED session
            /\ Continue
       ELSE IF ~io_ok
       THEN /\ UNCHANGED <<error_message, session>>
            /\ Propagate
       ELSE /\ error_message' = "Edit this file"
            /\ temp_file' = NewPath
            /\ file_watcher_rx' = Receiver(0)
            /\ files' = Replaced(NewPath, raw_input)
            /\ watcher' = NoPath      \* the local watcher is dropped on return
            /\ Continue

\* open_in_neovim that re-parses whatever the editor left, changed or not
open_in_neovim_always_parse(outcome, content, events) ==
    /\ UNCHANGED view_mode
    /\ IF raw_input = EmptyText
       THEN /\ error_message' = "No JSON content to edit"
            /\ UNCHANGED <<raw_input, formatted_json, is_valid, json_tree, selected_node,
                           parsed_value, scroll_offset>>
            /\ UNCHANGED <<session, needs_terminal_reinit, terminal>>
            /\ Continue
       ELSE IF outcome = "io_error"
       THEN /\ UNCHANGED <<doc, session, needs_terminal_reinit, terminal>>
            /\ Propagate
       ELSE IF outcome = "launch_failed"
       THEN /\ terminal' = "restored"
            /\ UNCHANGED <<doc, session, needs_terminal_reinit>>
            /\ Propagate
       ELSE IF outcome = "read_error"
       THEN /\ terminal' = "restored"
            /\ error_message' \in {error_message, "Failed to open Neovim"}
            /\ UNCHANGED <<raw_input, formatted_json, is_valid, json_tree, selected_node,
                           parsed_value, scroll_offset>>
            /\ UNCHANGED <<session, needs_terminal_reinit>>
            /\ Propagate
       ELSE /\ terminal' = "restored"
            /\ raw_input' = content /\ parse_json(content)
            /\ temp_file' = NewPath
            /\ file_watcher_rx' = Receiver(events)
            /\ files' = Replaced(NewPath, content)
            /\ watcher' = NoPath
            /\ needs_terminal_reinit' = TRUE
            /\ Continue

\* outcome: "io_error" (before the terminal is given up), "launch_failed",
\* "exit_ok", "exit_nonzero", "read_error" (after the editor has exited);
\* content: what the editor left in the file; events: the notifications the
\* watcher queued while the editor ran
open_in_neovim(outcome, content, events) ==
    /\ UNCHANGED view_mode
    /\ IF raw_input = EmptyText
       THEN /\ error_message' = "No JSON content to edit"
            /\ UNCHANGED <<raw_input, formatted_json, is_valid, json_tree, selected_node,
                           parsed_value, scroll_offset>>
            /\ UNCHANGED <<session, needs_terminal_reinit, terminal>>
            /\ Continue
       ELSE IF outcome = "io_error"
       THEN /\ UNCHANGED <<doc, session, needs_terminal_reinit, terminal>>
            /\ Propagate
       ELSE IF outcome = "launch_failed"
       THEN /\ terminal' = "restored"
            /\ UNCHANGED <<doc, session, needs_terminal_reinit>>
            /\ Propagate
       ELSE IF outcome = "read_error"
       THEN /\ terminal' = "restored"
            /\ error_message' \in {error_message, "Failed to open Neovim"}
            /\ UNCHANGED <<raw_input, formatted_json, is_valid, json_tree, selected_node,
                           parsed_value, scroll_offset>>
            /\ UNCHANGED <<session, needs_terminal_reinit>>
            /\ Propagate
       ELSE /\ terminal' = "restored"
            /\ IF content # raw_input
               THEN raw_input' = content /\ parse_json(content)
               ELSE /\ error_message' = IF outcome = "exit_nonzero"
                                        THEN "Failed to open Neovim" ELSE error_message
                    /\ UNCHANGED <<raw_input, formatted_json, is_valid, json_tree,
                                   selected_node, parsed_value, scroll_offset>>
            /\ temp_file' = NewPath
            /\ file_watcher_rx' = Receiver(events)
            /\ files' = Replaced(NewPath, content)
            /\ watcher' = NoPath      \* the local watcher is dropped on return
            /\ needs_terminal_reinit' = TRUE
            /\ Continue

\* check_file_changes that re-parses the file on every notification
check_file_changes_always_parse(read_ok) ==
    IF file_watcher_rx.some /\ file_watcher_rx.pending > 0
    THEN /\ file_watcher_rx' = Receiver(file_watcher_rx.pending - 1)
         /\ UNCHANGED <<temp_file, files, watcher>>
         /\ IF temp_file = NoPath
            THEN UNCHANGED doc
            ELSE IF ~read_ok
            THEN /\ error_message' = "Failed to read file"
                 /\ UNCHANGED <<raw_input, formatted_json, is_valid, json_tree,
                                selected_node, parsed_value, scroll_offset>>
            ELSE raw_input' = files[temp_file] /\ parse_json(files[temp_file])
    ELSE UNCHANGED <<doc, session>>

\* read_ok: fs::read_to_string of the temp file succeeds
check_file_changes(read_ok) ==
    IF file_watcher_rx.some /\ file_watcher_rx.pending > 0
    THEN /\ file_watcher_rx' = Receiver(file_watcher_rx.pending - 1)
         /\ UNCHANGED <<temp_file, files, watcher>>
         /\ IF temp_file = NoPath
            THEN UNCHANGED doc
            ELSE IF ~read_ok
            THEN /\ error_message' = "Failed to read file"
                 /\ UNCHANGED <<raw_input, formatted_json, is_valid, json_tree,
                                selected_node, parsed_value, scroll_offset>>
            ELSE IF files[temp_file] # raw_input
            THEN raw_input' = files[temp_file] /\ parse_json(files[temp_file])
            ELSE UNCHANGED doc
    ELSE UNCHANGED <<doc, session>>

\* ------------------------------------------- handle_event, one key per action

AtPoll == pc = "poll"

\* 'q' or Esc: handle_event returns Ok(false), the loop breaks, ratatui::restore
KeyQuit ==
    /\ AtPoll
    /\ pc' = "quit"
    /\ terminal' = "restored"
    /\ UNCHANGED <<doc, view_mode, session, needs_terminal_reinit>>
    /\ UNCHANGED main_menu

\* 'p', the clipboard answering with one of clips
Paste(clips) ==
    /\ AtPoll
    /\ \E clip \in clips : paste_from_clipboard(clip)
    /\ UNCHANGED main_menu

KeyPaste == Paste(Texts \cup {<<"unavailable">>, <<"error">>})

KeyExternalize ==
    /\ AtPoll
    /\ \E io_ok \in BOOLEAN : create_temp_file_for_editing(io_ok)
    /\ UNCHANGED main_menu

KeyNeovim ==
    /\ AtPoll
    /\ \E outcome \in {"io_error", "launch_failed", "exit_ok", "exit_nonzero", "read_error"},
          content \in Texts, events \in 0..MaxQueue :
            /\ content # raw_input => events > 0
            /\ open_in_neovim(outcome, content, events)
    /\ UNCHANGED main_menu

KeyToggleView ==
    /\ AtPoll
    /\ view_mode' = IF view_mode = "Tree" THEN "Raw" ELSE "Tree"
    /\ UNCHANGED <<doc, session, needs_terminal_reinit, terminal>>
    /\ Continue
    /\ UNCHANGED main_menu

\* Up or 'k'
KeyUp ==
    /\ AtPoll
    /\ IF view_mode = "Tree"
       THEN /\ selected_node' = move_selection_up(json_tree, selected_node)
            /\ UNCHANGED scroll_offset
       ELSE /\ scroll_offset' = IF scroll_offset > 0 THEN scroll_offset - 1 ELSE scroll_offset
            /\ UNCHANGED selected_node
    /\ UNCHANGED <<raw_input, formatted_json, error_message, is_valid, json_tree, parsed_value>>
    /\ UNCHANGED <<view_mode, session, needs_terminal_reinit, terminal>>
    /\ Continue
    /\ UNCHANGED main_menu

\* Down or 'j'
KeyDown ==
    /\ AtPoll
    /\ IF view_mode = "Tree"
       THEN /\ selected_node' = move_selection_down(json_tree, selected_node)
            /\ UNCHANGED scroll_offset
       ELSE /\ scroll_offset < MaxScroll
            /\ scroll_offset' = scroll_offset + 1
            /\ UNCHANGED selected_node
    /\ UNCHANGED <<raw_input, formatted_json, error_message, is_valid, json_tree, parsed_value>>
    /\ UNCHANGED <<view_mode, session, needs_terminal_reinit, terminal>>
    /\ Continue
    /\ UNCHANGED main_menu

\* Space or Enter toggling in either view
KeyToggleNode_any_view ==
    /\ AtPoll
    /\ json_tree' = toggle_node(json_tree, selected_node)
    /\ UNCHANGED <<raw_input, formatted_json, error_message, is_valid, selected_node,
                   parsed_value, scroll_offset>>
    /\ UNCHANGED <<view_mode, session, needs_terminal_reinit, terminal>>
    /\ Continue
    /\ UNCHANGED main_menu

\* Space or Enter: toggle_node in Tree view, the catch-all arm otherwise
KeyToggleNode ==
    /\ AtPoll
    /\ json_tree' = IF view_mode = "Tree" THEN toggle_node(json_tree, selected_node)
                    ELSE json_tree
    /\ UNCHANGED <<raw_input, formatted_json, error_message, is_valid, selected_node,
                   parsed_value, scroll_offset>>
    /\ UNCHANGED <<view_mode, session, needs_terminal_reinit, terminal>>
    /\ Continue
    /\ UNCHANGED main_menu

KeyCopy ==
    /\ AtPoll
    /\ \E clip \in {"unavailable", "ok", "error"} : copy_to_clipboard(clip)
    /\ UNCHANGED main_menu

KeyCopyMinified ==
    /\ AtPoll
    /\ \E clip \in {"unavailable", "ok", "error"} : copy_minified_to_clipboard(clip)
    /\ UNCHANGED main_menu

\* ---------------------------------------------------------- run_json_utils

CheckFileChanges ==
    /\ pc = "check"
    /\ \E read_ok \in BOOLEAN : check_file_changes(read_ok)
    /\ UNCHANGED <<view_mode, needs_terminal_reinit, terminal>>
    /\ pc' = "reinit"
    /\ UNCHANGED main_menu

ReinitTerminal ==
    /\ pc = "reinit"
    /\ IF needs_terminal_reinit
       THEN terminal' = "tui" /\ needs_terminal_reinit' = FALSE
       ELSE UNCHANGED <<terminal, needs_terminal_reinit>>
    /\ UNCHANGED <<doc, view_mode, session>>
    /\ pc' = "draw"
    /\ UNCHANGED main_menu

\* terminal.draw: render reads the state and changes none of it
Draw ==
    /\ pc = "draw"
    /\ UNCHANGED <<doc, view_mode, session, needs_terminal_reinit, terminal>>
    /\ pc' = "poll"
    /\ UNCHANGED main_menu

\* event::poll returns false after 100 ms, or the event is not one of the keys
PollTimeout ==
    /\ AtPoll
    /\ UNCHANGED <<doc, view_mode, session, needs_terminal_reinit, terminal>>
    /\ Continue
    /\ UNCHANGED main_menu

\* ------------------------------------------------------------- environment

\* another process writes the temp file; a notification is queued only while
\* a watcher on that path is alive
ExternalEdit ==
    \E f \in FileIds, content \in Texts :
        /\ files[f] # NoFile
        /\ content # files[f]
        /\ files' = [files EXCEPT ![f] = content]
        /\ IF watcher = f /\ file_watcher_rx.some
           THEN /\ file_watcher_rx.pending < MaxQueue
                /\ file_watcher_rx' = Receiver(file_watcher_rx.pending + 1)
           ELSE UNCHANGED file_watcher_rx
        /\ UNCHANGED <<doc, view_mode, temp_file, watcher, needs_terminal_reinit,
                       terminal, pc>>
        /\ UNCHANGED main_menu

Next ==
    \/ CheckFileChanges
    \/ ReinitTerminal
    \/ Draw
    \/ PollTimeout
    \/ KeyQuit
    \/ KeyPaste
    \/ KeyExternalize
    \/ KeyNeovim
    \/ KeyToggleView
    \/ KeyUp
    \/ KeyDown
    \/ KeyToggleNode
    \/ KeyCopy
    \/ KeyCopyMinified
    \/ ExternalEdit

Spec == Init /\ [][Next]_vars

\* The loop is one thread that waits at most 100 ms in event::poll: each of
\* its own steps is taken once it is due. Keys and other processes are free.
FairSpec ==
    /\ Spec
    /\ WF_vars(CheckFileChanges)
    /\ WF_vars(ReinitTerminal)
    /\ WF_vars(Draw)
    /\ WF_vars(PollTimeout)

\* The viewer used on the larger documents only: paste, switch view, navigate.
TreePaste == Paste(TreeTexts)

TreeNext ==
    \/ CheckFileChanges
    \/ ReinitTerminal
    \/ Draw
    \/ PollTimeout
    \/ TreePaste
    \/ KeyToggleView
    \/ KeyUp
    \/ KeyDown
    \/ KeyToggleNode

TreeSpec == Init /\ [][TreeNext]_vars

\* 'p' while the clipboard holds the pretty text, as after 'c'
KeyPasteFormatted ==
    /\ AtPoll
    /\ paste_from_clipboard(formatted_json)
    /\ UNCHANGED main_menu

RoundTripNext == TreeNext \/ KeyPasteFormatted

RoundTripSpec == Init /\ [][RoundTripNext]_vars

\* 'p' with a well-formed text for which to_string_pretty returns Err
KeyPasteUnformattable ==
    /\ AtPoll
    /\ \E clip \in TreeTexts :
          /\ from_str(clip).ok
          /\ raw_input' = clip
          /\ parse_json_with(clip, FALSE)
    /\ Continue
    /\ UNCHANGED <<view_mode, session, needs_terminal_reinit, terminal>>
    /\ UNCHANGED main_menu

FormatNext == TreeNext \/ KeyPasteUnformattable

FormatSpec == Init /\ [][FormatNext]_vars

\* 'p' with the tree documents and one that has a field named "root"
PathPaste == Paste(TreeTexts \cup {TextRootKey})

PathNext ==
    \/ CheckFileChanges
    \/ ReinitTerminal
    \/ Draw
    \/ PollTimeout
    \/ PathPaste
    \/ KeyToggleView
    \/ KeyUp
    \/ KeyDown
    \/ KeyToggleNode

PathSpec == Init /\ [][PathNext]_vars

\* ------------------------------------------------------------ run_main_menu

\* JsonUtils does not exist while the menu is on screen
json_utils_idle ==
    UNCHANGED <<doc, view_mode, session, needs_terminal_reinit, pc>>

MenuInit ==
    /\ raw_input = EmptyText
    /\ formatted_json = EmptyText
    /\ error_message = ""
    /\ is_valid = FALSE
    /\ view_mode = "Raw"
    /\ json_tree = <<>>
    /\ selected_node = 0
    /\ parsed_value = NoValue
    /\ temp_file = NoPath
    /\ file_watcher_rx = NoReceiver
    /\ needs_terminal_reinit = FALSE
    /\ scroll_offset = 0
    /\ files = [f \in FileIds |-> NoFile]
    /\ watcher = NoPath
    /\ terminal = "tui"
    /\ pc = "check"
    /\ menu = MainMenu_new
    /\ menu_pc = "menu"

AtMenu(mode) == menu_pc = "menu" /\ menu.input_mode = mode

\* 'q' in Normal mode: the loop breaks and main restores the terminal
MenuKeyQuit ==
    /\ AtMenu("Normal")
    /\ menu_pc' = "quit"
    /\ terminal' = "restored"
    /\ UNCHANGED menu
    /\ json_utils_idle

\* 'i'
MenuKeySearch ==
    /\ AtMenu("Normal")
    /\ menu' = [menu EXCEPT !.input_mode = "Editing"]
    /\ UNCHANGED <<menu_pc, terminal>>
    /\ json_utils_idle

\* Up or 'k'
MenuKeyUp ==
    /\ AtMenu("Normal")
    /\ menu' = previous_item(menu, filtered_count(menu.input))
    /\ UNCHANGED <<menu_pc, terminal>>
    /\ json_utils_idle

\* Down or 'j'
MenuKeyDown ==
    /\ AtMenu("Normal")
    /\ menu' = next_item(menu, filtered_count(menu.input))
    /\ UNCHANGED <<menu_pc, terminal>>
    /\ json_utils_idle

\* Enter: "JSON Utils" runs run_json_utils to its end (returned = "ok" or
\* "err"), the other programs do nothing
MenuKeyEnter ==
    /\ AtMenu("Normal")
    /\ UNCHANGED menu
    /\ json_utils_idle
    /\ IF /\ menu.selected < filtered_count(menu.input)
          /\ filtered_programs(menu.input)[menu.selected + 1] = all_programs[1]
       THEN \E returned \in {"ok", "err"} :
               IF returned = "ok"
               THEN UNCHANGED <<menu_pc, terminal>>
               ELSE menu_pc' = "error" /\ terminal' = "restored"
       ELSE UNCHANGED <<menu_pc, terminal>>

\* Esc in Editing mode
MenuKeyEsc ==
    /\ AtMenu("Editing")
    /\ menu' = [menu EXCEPT !.input_mode = "Normal"]
    /\ UNCHANGED <<menu_pc, terminal>>
    /\ json_utils_idle

\* a character key in Editing mode; String::insert panics off a boundary
MenuKeyChar ==
    /\ AtMenu("Editing")
    /\ Len(menu.input) < MaxInput
    /\ \E c \in MenuChars :
          IF is_char_boundary(menu.input, menu.cursor_position)
          THEN menu' = enter_char(menu, c) /\ UNCHANGED menu_pc
          ELSE menu_pc' = "panic" /\ UNCHANGED menu
    /\ UNCHANGED terminal
    /\ json_utils_idle

MenuKeyBackspace ==
    /\ AtMenu("Editing")
    /\ menu' = delete_char(menu)
    /\ UNCHANGED <<menu_pc, terminal>>
    /\ json_utils_idle

MenuKeyLeft ==
    /\ AtMenu("Editing")
    /\ menu' = move_cursor_left(menu)
    /\ UNCHANGED <<menu_pc, terminal>>
    /\ json_utils_idle

MenuKeyRight ==
    /\ AtMenu("Editing")
    /\ menu' = move_cursor_right(menu)
    /\ UNCHANGED <<menu_pc, terminal>>
    /\ json_utils_idle

MenuNext ==
    \/ MenuKeyQuit
    \/ MenuKeySearch
    \/ MenuKeyUp
    \/ MenuKeyDown
    \/ MenuKeyEnter
    \/ MenuKeyEsc
    \/ MenuKeyChar
    \/ MenuKeyBackspace
    \/ MenuKeyLeft
    \/ MenuKeyRight

MenuSpec == MenuInit /\ [][MenuNext]_vars

\* ------------------------------------------------------------ properties

\* the values directly below v, in order
Children(v) ==
    IF is_object(v) THEN [k \in 1..Len(v.entries) |-> v.entries[k][2]]
    ELSE IF is_array(v) THEN v.items
    ELSE <<>>

\* number of values in v, v included
RECURSIVE NodeCount(_), NodeCountAll(_)
NodeCount(v) == 1 + NodeCountAll(Children(v))

NodeCountAll(vs) == IF vs = <<>> THEN 0 ELSE NodeCount(Head(vs)) + NodeCountAll(Tail(vs))

\* Top-down visibility: the value v sits at flat index idx and all its strict
\* ancestors are expanded; its children are listed only when it is expanded.
RECURSIVE ShownFrom(_, _, _), ShownChildren(_, _, _)
ShownFrom(v, idx, tree) ==
    <<idx>> \o (IF tree[idx + 1].expanded THEN ShownChildren(Children(v), idx + 1, tree)
                ELSE <<>>)

ShownChildren(vs, idx, tree) ==
    IF vs = <<>> THEN <<>>
    ELSE ShownFrom(Head(vs), idx, tree)
         \o ShownChildren(Tail(vs), idx + NodeCount(Head(vs)), tree)

AncestorsExpanded(tree) == IF tree = <<>> THEN <<>> ELSE ShownFrom(tree[1].value, 0, tree)

InSeq(x, seq) == \E p \in 1..Len(seq) : seq[p] = x

\* 1-based position of x in seq, 0 when absent
PosIn(x, seq) == IF InSeq(x, seq) THEN CHOOSE p \in 1..Len(seq) : seq[p] = x ELSE 0

\* C1: the single-pass skip-depth scan of get_visible_nodes returns, in flat
\* order, exactly the nodes all of whose strict ancestors are expanded.
C1_ScanEqualsAncestorCheck == get_visible_nodes(json_tree) = AncestorsExpanded(json_tree)

\* a collapsed container hides its descendants and a later node is shown again,
\* while a container deeper than the auto-expand levels has been opened
C1_Witness ==
    /\ \E i \in 1..Len(json_tree), j \in 1..Len(json_tree) :
          /\ i + 1 < j
          /\ IsContainer(json_tree[i]) /\ ~json_tree[i].expanded
          /\ json_tree[i + 1].depth > json_tree[i].depth
          /\ json_tree[j].depth <= json_tree[i].depth
          /\ InSeq(j - 1, get_visible_nodes(json_tree))
          /\ ~InSeq(i, get_visible_nodes(json_tree))
    /\ \E i \in 1..Len(json_tree) : json_tree[i].depth >= 2 /\ json_tree[i].expanded

\* C2 as stated: in every reachable state selected_node is the flat index of
\* a node of the visible sequence.
C2_SelectedAlwaysVisible == InSeq(selected_node, get_visible_nodes(json_tree))

\* C2 amended: whenever json_tree is non-empty, selected_node is the flat
\* index of a node of the visible sequence.
C2_SelectedVisibleWhenTreeNonEmpty ==
    json_tree # <<>> => InSeq(selected_node, get_visible_nodes(json_tree))

\* the selection sits on x[2].y, which is shown only once x[2] has been opened,
\* in a document that came back from an edit session
C2_Witness ==
    /\ raw_input = TextScenario
    /\ selected_node = 5
    /\ json_tree[5].expanded
    /\ temp_file # NoPath

\* the effect of one move on the selection: dir = -1 for up, 1 for down
MoveEffect(dir) ==
    LET visible == get_visible_nodes(json_tree)
        p == PosIn(selected_node, visible)
    IN  /\ json_tree' = json_tree
        /\ visible = <<>> => selected_node' = selected_node
        /\ p >= 1 =>
              IF p + dir \in 1..Len(visible)
              THEN selected_node' = visible[p + dir]
              ELSE selected_node' = selected_node

\* C3: move up at the first visible node and move down at the last one leave
\* selected_node unchanged; otherwise selected_node becomes the adjacent
\* visible node in that direction; no expanded flag changes.
C3_MoveToAdjacentVisible ==
    [][/\ (KeyUp /\ view_mode = "Tree") => MoveEffect(-1)
       /\ (KeyDown /\ view_mode = "Tree") => MoveEffect(1)]_vars

\* the selection has stepped over hidden nodes: the node just before it in
\* flat order is not visible
C3_Witness ==
    /\ view_mode = "Tree"
    /\ selected_node > 0
    /\ InSeq(selected_node, get_visible_nodes(json_tree))
    /\ ~InSeq(selected_node - 1, get_visible_nodes(json_tree))

\* the step is a paste that delivered the text now in raw_input
PasteRan ==
    /\ pc = "poll" /\ pc' = "check"
    /\ error_message' \in {"", "Invalid JSON"}
    /\ paste_from_clipboard(raw_input')

\* the steps in which parse_json runs: every change of raw_input is followed
\* by it, and so is a paste of the text already held
ParseRan == raw_input' # raw_input \/ PasteRan

\* C9: after parse_json on valid JSON: is_valid, empty error_message,
\* parsed_value the parsed Value, formatted_json its pretty-printing, json_tree
\* a complete rebuild (one node per value, root first) with expanded =
\* (depth < 2) on every node, selected_node = 0.
C9_ValidParseResetsDocument ==
    [][(ParseRan /\ from_str(raw_input').ok) =>
          /\ is_valid'
          /\ error_message' = ""
          /\ parsed_value' = from_str(raw_input').v
          /\ formatted_json' = to_string_pretty(parsed_value')
          /\ Len(json_tree') = NodeCount(parsed_value')
          /\ json_tree' = build_tree(parsed_value')
          /\ json_tree'[1].value = parsed_value' /\ json_tree'[1].depth = 0
          /\ \A i \in 1..Len(json_tree') :
                json_tree'[i].expanded = (json_tree'[i].depth < 2)
          /\ selected_node' = 0]_vars

\* a valid document parsed after an edit session was started, the temp file
\* holding the same text, seen right after check_file_changes
C9_Witness ==
    /\ is_valid /\ error_message = ""
    /\ raw_input = TextScenario
    /\ temp_file # NoPath /\ SessionFile = raw_input
    /\ json_tree = build_tree(parsed_value)
    /\ selected_node = 0
    /\ pc = "reinit"

\* C10: after parse_json on text that is not valid JSON, whatever the state
\* before: is_valid = false, json_tree empty, formatted_json empty,
\* parsed_value absent, error_message non-empty.
C10_InvalidParseClearsDocument ==
    [][(ParseRan /\ ~from_str(raw_input').ok) =>
          /\ ~is_valid'
          /\ json_tree' = <<>>
          /\ formatted_json' = EmptyText
          /\ parsed_value' = NoValue
          /\ error_message' # ""]_vars

\* {"a":} was parsed over a document whose tree had been navigated
C10_Witness ==
    /\ raw_input = TextBadObj
    /\ ~is_valid /\ json_tree = <<>> /\ error_message = "Invalid JSON"
    /\ selected_node > 0

LoopEnded == pc \in {"quit", "error"}

\* C4: once create_temp_file_for_editing has succeeded, a later out-of-band
\* change of the temp file to content other than raw_input is eventually
\* reconciled (raw_input becomes the file's content) while the loop runs.
\* "Edit this file" is in error_message from the externalize until the next
\* handler that reports something, so a difference between the file and
\* raw_input in that span comes from another process.
C4_ExternalEditIsReconciled ==
    (/\ error_message = "Edit this file"
     /\ temp_file # NoPath
     /\ SessionFile # raw_input
     /\ ~LoopEnded)
    ~> (raw_input = SessionFile \/ LoopEnded)

\* C5: a paste that replaces raw_input leaves no temp file and no receiver of
\* an earlier session behind.
C5_PasteEndsTheSession ==
    [][(PasteRan /\ raw_input' # raw_input) =>
          (temp_file' = NoPath /\ ~file_watcher_rx'.some)]_vars

\* C6: every open_in_neovim that has given up the terminal, whatever the
\* editor did (failed to launch, exited non-zero), returns normally with the
\* loop going on and raw_input reconciled with the temp file.
C6_EditorFailureIsNotFatal ==
    [][(pc = "poll" /\ terminal = "tui" /\ terminal' = "restored" /\ pc' # "quit") =>
          /\ pc' = "check"
          /\ temp_file' # NoPath
          /\ raw_input' = SessionFile']_vars

\* C7: no error ends the loop of run_json_utils; it ends only on a quit intent.
C7_NoErrorEndsTheLoop == pc # "error"

\* C8: whenever the terminal has been given up by open_in_neovim the flag
\* needs_terminal_reinit is set, on every exit path; the loop draws and polls
\* only with the terminal initialised and the flag cleared.
C8_TerminalReinitOnEveryExit ==
    /\ (terminal = "restored" /\ pc # "quit") => needs_terminal_reinit
    /\ pc \in {"draw", "poll"} => (terminal = "tui" /\ ~needs_terminal_reinit)

\* ------------------------------------------------------------ toggling

\* the tree with the expanded flags left out
Shape(tree) ==
    [i \in 1..Len(tree) |->
        [key |-> tree[i].key, value |-> tree[i].value, depth |-> tree[i].depth,
         path |-> tree[i].path]]

\* C11: a toggle flips the expanded flag of the selected node when it is an
\* object or an array and does nothing on a scalar or on an empty tree; it
\* leaves selected_node, every other flag, the node sequence, raw_input and
\* the parsed Value as they were, and a second toggle restores the first state.
C11_ToggleFlipsOnlySelectedContainer ==
    [][(KeyToggleNode /\ view_mode = "Tree") =>
          /\ UNCHANGED <<selected_node, raw_input, parsed_value, formatted_json, is_valid>>
          /\ Shape(json_tree') = Shape(json_tree)
          /\ \A i \in 1..Len(json_tree) :
                json_tree'[i].expanded =
                    IF i = selected_node + 1 /\ IsContainer(json_tree[i])
                    THEN ~json_tree[i].expanded
                    ELSE json_tree[i].expanded
          /\ toggle_node(json_tree', selected_node') = json_tree]_vars

\* an object below the root has been closed and opened again elsewhere: the
\* selection sits on a closed container of an auto-expanded level while a
\* deeper container is open
C11_Witness ==
    /\ view_mode = "Tree"
    /\ selected_node > 0 /\ selected_node < Len(json_tree)
    /\ IsContainer(json_tree[selected_node + 1])
    /\ json_tree[selected_node + 1].depth < 2
    /\ ~json_tree[selected_node + 1].expanded
    /\ \E i \in 1..Len(json_tree) : json_tree[i].depth >= 2 /\ json_tree[i].expanded

\* ------------------------------------------------------- pre-order layout

\* the values of v in pre-order with their depths, v itself at depth d
RECURSIVE PreOrder(_, _), PreOrderAll(_, _)
PreOrder(v, d) == <<[value |-> v, depth |-> d]>> \o PreOrderAll(Children(v), d + 1)

PreOrderAll(vs, d) ==
    IF vs = <<>> THEN <<>> ELSE PreOrder(Head(vs), d) \o PreOrderAll(Tail(vs), d)

\* values and depths of the nodes i+1 .. j of the tree (1-based, i <= j)
Layout(tree, i, j) ==
    [k \in 1..(j - i) |-> [value |-> tree[i + k].value, depth |-> tree[i + k].depth]]

\* 1-based index of the first node after i that is not deeper than node i
SubtreeEnd(tree, i) ==
    LET later == {j \in (i + 1)..Len(tree) : tree[j].depth <= tree[i].depth}
    IN  IF later = {} THEN Len(tree) + 1
        ELSE CHOOSE j \in later : \A m \in later : j <= m

\* C12: json_tree is the pre-order traversal of the parsed Value, one node
\* per value, the root first at depth 0 and each child one deeper than its
\* parent; the descendants of a node are exactly the run of nodes after it
\* that are deeper than it; toggles and moves change neither the sequence
\* nor the depths.
C12_TreeIsPreOrderOfValue ==
    /\ [](json_tree # <<>> =>
            /\ parsed_value # NoValue
            /\ Layout(json_tree, 0, Len(json_tree)) = PreOrder(parsed_value, 0)
            /\ \A i \in 1..Len(json_tree) :
                  Layout(json_tree, i, SubtreeEnd(json_tree, i) - 1)
                      = PreOrderAll(Children(json_tree[i].value), json_tree[i].depth + 1))
    /\ [][(view_mode = "Tree" /\ (KeyUp \/ KeyDown \/ KeyToggleNode)) =>
             Shape(json_tree') = Shape(json_tree)]_vars

\* a tree four levels deep, with sibling subtrees, after the selection has
\* moved and a flag has been toggled away from its built value
C12_Witness ==
    /\ \E i \in 1..Len(json_tree) :
          /\ json_tree[i].depth = 3
          /\ SubtreeEnd(json_tree, i) <= Len(json_tree)
    /\ selected_node > 0
    /\ \E i \in 1..Len(json_tree) : json_tree[i].expanded # (json_tree[i].depth < 2)

\* ------------------------------------------------- default expand levels

\* flat indices of the nodes of depth at most n, in order
DepthAtMost(tree, n) ==
    SelectSeq([i \in 1..Len(tree) |-> i - 1], LAMBDA x : tree[x + 1].depth <= n)

\* a paste has just built a tree
BuildRan == PasteRan /\ is_valid'

\* C13: right after a tree build the nodes of depth 0 and 1 are expanded and
\* those of depth 2 or more are collapsed, so the visible nodes are exactly
\* those of depth at most 2; for {"x":[1,2,{"y":true}]} the tree has 6 nodes,
\* x[2] is collapsed and x[2].y stays hidden until x[2] is selected and
\* toggled, after which it is visible.
C13_DefaultExpandShowsDepthTwo ==
    [][/\ BuildRan =>
            /\ \A i \in 1..Len(json_tree') :
                  json_tree'[i].expanded = (json_tree'[i].depth < 2)
            /\ get_visible_nodes(json_tree') = DepthAtMost(json_tree', 2)
            /\ raw_input' = TextScenario =>
                  /\ Len(json_tree') = 6
                  /\ json_tree'[5].key = IndexKey(2) /\ json_tree'[5].depth = 2
                  /\ ~json_tree'[5].expanded
                  /\ json_tree'[6].value = Bool(TRUE) /\ json_tree'[6].depth = 3
                  /\ ~InSeq(5, get_visible_nodes(json_tree'))
       /\ (raw_input = TextScenario /\ is_valid) =>
            /\ ~json_tree[5].expanded => ~InSeq(5, get_visible_nodes(json_tree))
            /\ (~json_tree[5].expanded /\ Len(json_tree') = 6 /\ json_tree'[5].expanded) =>
                  /\ view_mode = "Tree" /\ selected_node = 4
                  /\ InSeq(5, get_visible_nodes(json_tree'))]_vars

\* x[2] of the scenario document has just been opened and x[2].y is listed
C13_Witness ==
    /\ raw_input = TextScenario /\ is_valid
    /\ selected_node = 4
    /\ json_tree[5].expanded
    /\ get_visible_nodes(json_tree) = <<0, 1, 2, 3, 4, 5>>

\* ------------------------------------------------------- edit sessions

\* C14: with an empty raw_input, create_temp_file_for_editing and
\* open_in_neovim only set the message "No JSON content to edit": no temp
\* file is created, no subscription is made, the terminal is not given up,
\* needs_terminal_reinit stays false and an existing session is left as it was.
C14_EmptyDocumentStartsNoSession ==
    [][(pc = "poll" /\ raw_input = EmptyText /\ (KeyExternalize \/ KeyNeovim)) =>
          /\ error_message' = "No JSON content to edit"
          /\ pc' = "check"
          /\ ~needs_terminal_reinit'
          /\ terminal' = "tui"
          /\ UNCHANGED <<temp_file, file_watcher_rx, files, watcher>>
          /\ UNCHANGED <<raw_input, formatted_json, is_valid, json_tree, selected_node,
                         parsed_value, scroll_offset, view_mode>>]_vars

\* the message is shown over an empty document while the session started for
\* an earlier document is still in place
C14_Witness ==
    /\ raw_input = EmptyText
    /\ error_message = "No JSON content to edit"
    /\ temp_file # NoPath /\ file_watcher_rx.some
    /\ SessionFile \notin {NoFile, EmptyText}
    /\ terminal = "tui" /\ ~needs_terminal_reinit

\* the temp files that exist on disk
LiveFiles == {f \in FileIds : files[f] # NoFile}

\* a step that stores a new session in the state
SessionStarts == temp_file' # temp_file \/ file_watcher_rx'.some # file_watcher_rx.some

\* C15: there is never more than one edit session. temp_file is present
\* exactly when file_watcher_rx is; starting a session while one exists
\* replaces both together, the old temp file and the old receiver being
\* dropped; every later reconciliation reads only the newest session's file.
C15_AtMostOneSession ==
    /\ [](/\ (temp_file # NoPath) <=> file_watcher_rx.some
          /\ LiveFiles = IF temp_file = NoPath THEN {} ELSE {temp_file})
    /\ [][/\ SessionStarts =>
                /\ temp_file' \in FileIds \ {temp_file}
                /\ file_watcher_rx'.some
                /\ LiveFiles' = {temp_file'}
                /\ pc = "poll" /\ pc' = "check"
          /\ (raw_input' # raw_input /\ ~PasteRan) => raw_input' = SessionFile']_vars

\* the editor has just returned from a session that replaced an earlier one:
\* only the second temp file exists and the document holds its text
C15_Witness ==
    /\ temp_file = 2
    /\ LiveFiles = {2}
    /\ file_watcher_rx.some /\ file_watcher_rx.pending > 0
    /\ raw_input = TextBye /\ SessionFile = TextBye
    /\ pc = "check" /\ needs_terminal_reinit

\* the document fields after parse_json has run on the new raw_input
ParseJsonRan ==
    LET r == from_str(raw_input')
    IN  IF r.ok
        THEN /\ is_valid' /\ error_message' = ""
             /\ parsed_value' = r.v
             /\ formatted_json' = to_string_pretty(r.v)
             /\ json_tree' = build_tree(r.v)
             /\ selected_node' = 0 /\ scroll_offset' = 0
        ELSE /\ ~is_valid' /\ error_message' = "Invalid JSON"
             /\ parsed_value' = NoValue
             /\ formatted_json' = EmptyText
             /\ json_tree' = <<>>

\* open_in_neovim has returned after the editor exited and the file was read
EditorReturned == pc = "poll" /\ pc' = "check" /\ needs_terminal_reinit'

\* C16: when the editor process exits, open_in_neovim reads the final
\* content of the temp file; if it differs from raw_input, raw_input is
\* replaced by it and parse_json runs; if it is equal, raw_input, the parsed
\* Value, the tree, the expand flags and selected_node are unchanged.
C16_EditorResultIsReconciledOnce ==
    [][EditorReturned =>
          IF SessionFile' # raw_input
          THEN raw_input' = SessionFile' /\ ParseJsonRan
          ELSE UNCHANGED <<raw_input, parsed_value, json_tree, selected_node,
                           formatted_json, is_valid, scroll_offset>>]_vars

\* the editor has just returned with the text it was given: the selection is
\* still below the root and a flag still differs from its built value
C16_Witness ==
    /\ pc = "check" /\ needs_terminal_reinit
    /\ SessionFile = raw_input
    /\ is_valid /\ selected_node > 0
    /\ \E i \in 1..Len(json_tree) : json_tree[i].expanded # (json_tree[i].depth < 2)

\* the loop's call of check_file_changes
CheckStep == pc = "check" /\ pc' # "check"

\* C17: check_file_changes never blocks and never reports an error for a
\* missing notification: with no session, or with an empty or disconnected
\* queue, it changes no state; with a pending notification while the file's
\* content equals raw_input it consumes the notification and leaves
\* raw_input, the tree, the expand flags and selected_node unchanged.
C17_CheckWithoutChangeIsSilent ==
    /\ [](pc = "check" => ENABLED CheckFileChanges)
    /\ [][CheckStep =>
             /\ pc' = "reinit"
             /\ (~file_watcher_rx.some \/ file_watcher_rx.pending = 0) =>
                   UNCHANGED <<doc, session, view_mode, needs_terminal_reinit, terminal>>
             /\ (file_watcher_rx.some /\ file_watcher_rx.pending > 0
                    /\ SessionFile = raw_input) =>
                   /\ file_watcher_rx' = Receiver(file_watcher_rx.pending - 1)
                   /\ UNCHANGED <<raw_input, json_tree, selected_node, parsed_value,
                                  formatted_json, is_valid, temp_file, files>>]_vars

\* one of the notifications queued while the editor ran has been consumed
\* with the file equal to the document: the selection and the message are
\* those from before the call
C17_Witness ==
    /\ pc = "reinit" /\ needs_terminal_reinit
    /\ file_watcher_rx.some /\ file_watcher_rx.pending = MaxQueue - 1
    /\ SessionFile = raw_input
    /\ is_valid /\ selected_node > 0 /\ error_message = ""

\* -------------------------------------------------------------- round trip

\* the clipboard handed back the pretty text of a valid document
FormattedPasted == is_valid /\ KeyPasteFormatted

NoOp ==
    /\ pc' = "check"
    /\ UNCHANGED <<doc, view_mode, session, needs_terminal_reinit, terminal>>

\* C19: copy_minified_to_clipboard serialises only when is_valid is true
\* and a parsed Value is present, copy_to_clipboard acts only when is_valid
\* is true and formatted_json is non-empty; otherwise both are no-ops, and
\* in every case raw_input, the parsed Value, the tree, the expand flags and
\* selected_node are unchanged.
C19_CopyNeedsValidDocument ==
    [][/\ (KeyCopy \/ KeyCopyMinified) =>
            UNCHANGED <<raw_input, parsed_value, json_tree, selected_node,
                        formatted_json, is_valid>>
       /\ (KeyCopy /\ ~(is_valid /\ formatted_json # EmptyText)) => NoOp
       /\ (KeyCopyMinified /\ ~(is_valid /\ parsed_value # NoValue)) => NoOp
       /\ (AtPoll /\ error_message' # error_message
             /\ error_message' \in {"Copied formatted JSON to clipboard",
                                    "Copied minified JSON to clipboard"}) =>
            is_valid /\ parsed_value # NoValue /\ formatted_json # EmptyText]_vars

\* the minified text of a valid document has been copied while the selection
\* sat below the root with a flag toggled
C19_Witness ==
    /\ error_message = "Copied minified JSON to clipboard"
    /\ is_valid /\ parsed_value # NoValue
    /\ selected_node > 0
    /\ \E i \in 1..Len(json_tree) : json_tree[i].expanded # (json_tree[i].depth < 2)

\* ------------------------------------------------------- format failure

\* parse_json has just taken its "Format error" arm
FormatFailed == AtPoll /\ error_message' = "Format error"

ParentOf(tree, i) ==
    CHOOSE p \in 1..(i - 1) :
        /\ tree[p].depth = tree[i].depth - 1
        /\ \A q \in (p + 1)..(i - 1) : tree[q].depth >= tree[i].depth

\* position of node i among the children of its parent, from 1
Rank(tree, i) ==
    Cardinality({j \in (ParentOf(tree, i) + 1)..i : tree[j].depth = tree[i].depth})

\* key of node i as specified: the field name or [index]
ExpectedKey(tree, i) ==
    LET v == tree[ParentOf(tree, i)].value
    IN  IF is_object(v) THEN v.entries[Rank(tree, i)][1] ELSE IndexKey(Rank(tree, i) - 1)

\* path of node i as specified: the key alone at depth 1, otherwise the
\* parent's path followed by .field or by [index]
ExpectedPath(tree, i) ==
    LET parent == tree[ParentOf(tree, i)]
    IN  IF tree[i].depth = 1 THEN tree[i].key
        ELSE IF is_object(parent.value) THEN parent.path \o <<".">> \o tree[i].key
        ELSE parent.path \o tree[i].key

\* C21: for every document, including ones with a field named "root", the
\* root's key is empty, an object entry has key = field name and path =
\* parent_path.field (just the field at depth 1), an array element has key =
\* [index] and path = parent_path[index]; so the path of a node at depth 2
\* or more starts with its parent's path.
C21_KeysAndPathsAsSpecified ==
    \A i \in 1..Len(json_tree) :
        IF i = 1 THEN json_tree[i].key = <<>> /\ json_tree[i].depth = 0
        ELSE /\ json_tree[i].key = ExpectedKey(json_tree, i)
             /\ json_tree[i].path = ExpectedPath(json_tree, i)

\* ------------------------------------------------------ validity indicators

\* is_valid, parsed_value and json_tree describe the current raw_input
DocumentIsCurrent ==
    LET r == from_str(raw_input)
    IN  /\ r.ok
        /\ parsed_value = r.v
        /\ formatted_json = to_string_pretty(r.v)
        /\ Shape(json_tree) = Shape(build_tree(r.v))

\* a valid document is the parse of the text on show
ValidMeansCurrent == is_valid => DocumentIsCurrent

\* C22: in every reachable state, a clipboard read failure included, is_valid
\* is true iff parsed_value is present iff json_tree is non-empty; and when
\* is_valid is true, parsed_value is the parse of the current raw_input,
\* formatted_json its pretty-printing and json_tree its flattening.
C22_ValidityIndicatorsAgree ==
    /\ is_valid <=> (parsed_value # NoValue)
    /\ is_valid <=> (json_tree # <<>>)
    /\ ValidMeansCurrent

\* ------------------------------------------------------------- view modes

\* everything but scroll_offset and the loop position is kept
OnlyScrollChanges ==
    UNCHANGED <<raw_input, formatted_json, error_message, is_valid, json_tree,
                selected_node, parsed_value, view_mode, session, needs_terminal_reinit,
                terminal>>

\* C23: toggle-view only flips view_mode between Raw and Tree; in Raw view
\* move-up and move-down change only scroll_offset (move-up at 0 is a no-op,
\* scroll_offset never goes below 0) and toggle-expand is ignored; in Tree
\* view move and toggle-expand never change scroll_offset; every successful
\* parse resets scroll_offset to 0.
C23_KeysScopedByViewMode ==
    /\ [](scroll_offset >= 0)
    /\ [][/\ KeyToggleView =>
                /\ view_mode' = (IF view_mode = "Raw" THEN "Tree" ELSE "Raw")
                /\ UNCHANGED <<doc, session, needs_terminal_reinit, terminal>>
          /\ (view_mode = "Raw" /\ KeyUp) =>
                /\ OnlyScrollChanges
                /\ scroll_offset' = (IF scroll_offset = 0 THEN 0 ELSE scroll_offset - 1)
          /\ (view_mode = "Raw" /\ KeyDown) =>
                /\ OnlyScrollChanges
                /\ scroll_offset' = scroll_offset + 1
          /\ (view_mode = "Raw" /\ KeyToggleNode) => NoOp
          /\ (view_mode = "Tree" /\ (KeyUp \/ KeyDown \/ KeyToggleNode)) =>
                UNCHANGED scroll_offset
          /\ (ParseRan /\ is_valid') => scroll_offset' = 0]_vars

\* the raw view is scrolled down over a valid document whose tree keeps the
\* selection and the flags set earlier in the tree view
C23_Witness ==
    /\ view_mode = "Raw"
    /\ scroll_offset > 0
    /\ is_valid /\ selected_node > 0
    /\ \E i \in 1..Len(json_tree) : json_tree[i].expanded # (json_tree[i].depth < 2)

\* ---------------------------------------------------------------- main menu

\* selected names an entry of the filtered list when there is one
SelectedInFilteredList ==
    filtered_count(menu.input) > 0 => menu.selected < filtered_count(menu.input)

\* the cursor is at a position of the filter text, counted in characters
CursorWithinChars == menu.cursor_position \in 0..Len(menu.input)

\* the cursor is within the filter text's length in bytes
CursorWithinBytes == menu.cursor_position \in 0..byte_len(menu.input)

\* up and down go round the filtered list; a new filter text selects entry 0
MenuStep ==
    LET n == filtered_count(menu.input)
    IN  /\ (MenuKeyDown /\ n > 0) =>
              menu'.selected = (IF menu.selected = n - 1 THEN 0 ELSE menu.selected + 1)
        /\ (MenuKeyUp /\ n > 0) =>
              menu'.selected = (IF menu.selected = 0 THEN n - 1 ELSE menu.selected - 1)
        /\ menu'.input # menu.input => menu'.selected = 0

\* String::insert is never called off a character boundary
MenuNeverPanics == menu_pc # "panic"

\* C24: in the main menu, after any sequence of key events, selected is a
\* valid index into the filtered program list whenever that list is
\* non-empty; next_item and previous_item wrap around; every change of the
\* filter text resets selected to 0; cursor_position stays within
\* 0..=length of the filter text.
C24_MenuSelectionAndCursorInRange ==
    /\ [](SelectedInFilteredList /\ CursorWithinChars)
    /\ [][MenuStep]_vars

\* C24 with the length taken in bytes, as clamp_cursor takes it
MenuSelectionAndByteCursorInRange ==
    /\ [](SelectedInFilteredList /\ CursorWithinBytes)
    /\ [][MenuStep]_vars

====
